---- MODULE Spec2Model ----
(***************************************************************************)
(* The offline-resilient synchronisation layer of the finance tracker:     *)
(* the connectivity monitor, the local durable cache, the offline          *)
(* operation queue (useOfflineQueue) and the entity store / reconciler     *)
(* (TransactionProvider).                                                  *)
(*                                                                         *)
(* JavaScript runs one task at a time, so one action is one event handler  *)
(* or one promise continuation, run up to its next await, followed by the  *)
(* React render it causes and the effects of that render.  The store's     *)
(* state is passed through the operators as a record (St); Set assigns it  *)
(* to the variables.                                                       *)
(***************************************************************************)
EXTENDS Integers, Sequences, FiniteSets, TLC

VARIABLES
    user,          \* useAuth().user: the owner's id, or NoUser
    isOnline,      \* useOnlineStatus()
    queue,         \* useOfflineQueue: the in-memory list of operations
    lsQueue,       \* localStorage[QUEUE_KEY]
    syncingRef,    \* syncingRef.current
    isSyncing,     \* the isSyncing state
    transactions,  \* the three in-memory collections
    reminders,
    investments,
    loading,       \* the loading flag
    cache,         \* localStorage[CACHE_PREFIX + key], per collection
    now,           \* Date.now(), in hours
    remote,        \* the rows of the remote data service, per table
    nextSrv,       \* the last identifier the remote service issued
    clock,         \* source of generateTempId()/Date.now() uniqueness
    drains,        \* the syncQueue() calls that are running
    lastDrain,     \* history: the drain pass whose loop ended in the last step
    lastEnd,       \* history: the drain that returned or raised in the last step
    fetches,       \* the running fetchData() calls
    inflight,      \* the remote calls of online mutations not yet resolved
    nMut,          \* history: the number of mutator calls so far
    lastMut,       \* history: the mutator call made in the last step
    storageFull,   \* whether localStorage has reached its quota
    nReload,       \* history: the number of page reloads so far
    lastReads,     \* history: the getOfflineCache() calls of the last step,
                   \* each with the entry found, the value returned and
                   \* the entry left in storage
    lastPurge,     \* history: the setOfflineCache() calls of the last step
                   \* whose write failed, each with the storage found and
                   \* the storage left
    appliedIds,    \* history: the ids of the operations a drain has applied
                   \* to the remote service so far
    syncEffect,    \* history: what the sync effect did in the last step
    event          \* history: the kind of the last step

vars == <<user, isOnline, queue, lsQueue, syncingRef, isSyncing, transactions,
          reminders, investments, loading, cache, now, remote, nextSrv, clock,
          drains, lastDrain, lastEnd, fetches, inflight, nMut, lastMut, storageFull,
          nReload, lastReads, lastPurge, appliedIds, syncEffect, event>>

----------------------------------------------------------------------------
(* Bounds of the model *)

MaxQueued == 2     \* mutator calls in one behaviour of Spec (all offline)
MaxMut == 2        \* mutator calls in one behaviour of MutSpec
MaxVal == 1        \* payload values are 1..MaxVal
MaxFetches == 1    \* fetchData() calls running at once
MaxInflight == 1   \* unresolved remote calls of online mutations
MaxReloads == 1    \* page reloads in one behaviour
MaxNow == 26       \* the clock stops at this hour
MaxStored == 3     \* offline additions in a behaviour of PurgeSpec
MaxLoadMut == 1    \* offline additions in a behaviour of LoadSpec
MaxMarkInflight == 2  \* unresolved remote calls in a behaviour of DoubleMarkSpec

(* Program constants *)

CACHE_EXPIRY == 24 \* 1000 * 60 * 60 * 24 ms, counted in hours

Tables == {"transactions", "reminders", "investments"}
Actions == {"insert", "update", "delete"}
NoUser == "none"
Owners == {"u1"}
OtherOwner == "u2"
Vals == 1..MaxVal

(* An optional field is <<>> when absent and <<x>> when present. *)
None == <<>>
Some(x) == <<x>>

(* Identifiers: temp_<n> is <<"temp_", n>>, a server-issued id is <<"id", n>>. *)
TempId(n) == <<"temp_", n>>
SrvId(n) == <<"id", n>>
startsWithTemp(id) == id[1] = "temp_"

----------------------------------------------------------------------------
(* The state as a record, at the start of a task: the histories of the     *)
(* last step are cleared.  touched is transient: the collections whose     *)
(* setter was called in the current task.  order is transient too: the     *)
(* order in which localStorage.key() enumerates the keys in this task.     *)

StorageKeys == Tables \cup {"other"}

KeyOrder == <<"transactions", "reminders", "investments", "other">>

StorageOrders ==
    {p \in [1..Cardinality(StorageKeys) -> StorageKeys] :
        \A i, j \in 1..Cardinality(StorageKeys) : p[i] = p[j] => i = j}

St ==
    [user |-> user, isOnline |-> isOnline, queue |-> queue, lsQueue |-> lsQueue,
     syncingRef |-> syncingRef, isSyncing |-> isSyncing,
     colls |-> [transactions |-> transactions, reminders |-> reminders,
                investments |-> investments],
     loading |-> loading, cache |-> cache, now |-> now, remote |-> remote,
     nextSrv |-> nextSrv, clock |-> clock, drains |-> drains,
     lastDrain |-> None, lastEnd |-> None, fetches |-> fetches, inflight |-> inflight,
     nMut |-> nMut, lastMut |-> None, storageFull |-> storageFull,
     nReload |-> nReload, lastReads |-> {}, lastPurge |-> {},
     appliedIds |-> appliedIds,
     syncEffect |-> "none", event |-> event, touched |-> {},
     order |-> KeyOrder]

Set(s) ==
    /\ user' = s.user
    /\ isOnline' = s.isOnline
    /\ queue' = s.queue
    /\ lsQueue' = s.lsQueue
    /\ syncingRef' = s.syncingRef
    /\ isSyncing' = s.isSyncing
    /\ transactions' = s.colls.transactions
    /\ reminders' = s.colls.reminders
    /\ investments' = s.colls.investments
    /\ loading' = s.loading
    /\ cache' = s.cache
    /\ now' = s.now
    /\ remote' = s.remote
    /\ nextSrv' = s.nextSrv
    /\ clock' = s.clock
    /\ drains' = s.drains
    /\ lastDrain' = s.lastDrain
    /\ lastEnd' = s.lastEnd
    /\ fetches' = s.fetches
    /\ inflight' = s.inflight
    /\ nMut' = s.nMut
    /\ lastMut' = s.lastMut
    /\ storageFull' = s.storageFull
    /\ nReload' = s.nReload
    /\ lastReads' = s.lastReads
    /\ lastPurge' = s.lastPurge
    /\ appliedIds' = s.appliedIds
    /\ syncEffect' = s.syncEffect
    /\ event' = s.event

SetColl(s, t, list) ==
    [s EXCEPT !.colls[t] = list, !.touched = @ \cup {t}]

Ids(list) == {list[i].id : i \in 1..Len(list)}

MapSeq(list, F(_)) == [i \in 1..Len(list) |-> F(list[i])]

RemoveAt(list, i) == SubSeq(list, 1, i - 1) \o SubSeq(list, i + 1, Len(list))

(* { ...e, ...upd }: the fields of upd over those of e *)
Merge(e, upd) ==
    [f \in DOMAIN e \cup DOMAIN upd |-> IF f \in DOMAIN upd THEN upd[f] ELSE e[f]]

----------------------------------------------------------------------------
(* The entities and their rows.  val is the amount of a transaction or a  *)
(* reminder and the valorInvestido of an investment; the fields that no   *)
(* operation of the store reads or changes are left out.                  *)

(* The fields of a new entity, as the forms of the application pass them *)
NewEntity(t, val) ==
    CASE t = "transactions" -> [val |-> val, category |-> "other"]
      [] t = "reminders" -> [val |-> val]
      [] t = "investments" -> [val |-> val, jaInvestido |-> FALSE,
                               transactionId |-> None]

(* dbPayload: the fields of an entity in the row shape.  An investment's  *)
(* transactionId has no column.                                           *)
ToRow(t, e) ==
    CASE t = "transactions" -> [val |-> e.val, category |-> e.category]
      [] t = "reminders" -> [val |-> e.val]
      [] t = "investments" ->
            [val |-> e.val,
             status |-> IF e.jaInvestido THEN "completed" ELSE "active"]

(* updateData: the fields of a partial update in the row shape *)
UpdateData(upd) ==
    LET cols == (DOMAIN upd \cap {"val", "category"}) \cup
                (IF "jaInvestido" \in DOMAIN upd THEN {"status"} ELSE {})
    IN  [c \in cols |->
            IF c = "status"
            THEN IF upd.jaInvestido THEN "completed" ELSE "active"
            ELSE upd[c]]

----------------------------------------------------------------------------
(* useOfflineQueue.ts *)

generateTempId(s) == TempId(s.clock + 1)

loadQueue(s) == s.lsQueue

(* saveQueue: setItem raises when the quota is reached and the value     *)
(* grows; the catch block drops the error and the stored list stays.      *)
saveQueue(s, list) ==
    IF s.storageFull /\ Len(list) > Len(s.lsQueue)
    THEN s
    ELSE [s EXCEPT !.lsQueue = list]

(* enqueue putting the operation at the head of the list *)
enqueuePrepend(s, op) ==
    LET operation == [id |-> generateTempId(s), table |-> op.table,
                      action |-> op.action, payload |-> op.payload,
                      entityId |-> op.entityId, tempId |-> op.tempId,
                      createdAt |-> s.clock + 1, by |-> s.user]
        updated == <<operation>> \o s.queue
    IN  saveQueue([s EXCEPT !.queue = updated, !.clock = @ + 1], updated)

(* enqueue: the operation gets a fresh id and the current time, is appended *)
(* to the list, and the whole list is persisted.  The field by is history:  *)
(* the user signed in when the operation was enqueued; OfflineOperation has *)
(* no such field and nothing of the store reads it.                         *)
enqueue(s, op) ==
    LET operation == [id |-> generateTempId(s), table |-> op.table,
                      action |-> op.action, payload |-> op.payload,
                      entityId |-> op.entityId, tempId |-> op.tempId,
                      createdAt |-> s.clock + 1, by |-> s.user]
        updated == Append(s.queue, operation)
    IN  saveQueue([s EXCEPT !.queue = updated, !.clock = @ + 1], updated)

(* clearQueue leaving the list as it is *)
clearQueueKeep(s) == s

clearQueue(s) == saveQueue([s EXCEPT !.queue = <<>>], <<>>)

pendingCount(s) == Len(s.queue)

----------------------------------------------------------------------------
(* useOffline.ts: the local durable cache *)

(* The expiry test with >= in place of > *)
CacheExpiredAtLimit(s, key) ==
    /\ s.cache[key] # None
    /\ s.now - s.cache[key][1].timestamp >= CACHE_EXPIRY

CacheExpired(s, key) ==
    /\ s.cache[key] # None
    /\ s.now - s.cache[key][1].timestamp > CACHE_EXPIRY

(* The keys localStorage holds, as key(0), key(1), ... enumerate them: the *)
(* cache entries present and "other", the keys outside the cache's        *)
(* namespace (the queue, the session of the signed-in user).              *)
KeysOf(s) ==
    SelectSeq(s.order, LAMBDA k : k \notin Tables \/ s.cache[k] # None)

(* The loop of clearExpiredCaches at index i (from 1 here), keys being    *)
(* what key() enumerates: removeItem takes the key out of the enumeration *)
(* and the keys after it move down one index, then i++ runs.  The value  *)
(* is the state and the keys left when the loop ends.                     *)
RECURSIVE clearLoop(_, _, _)
clearLoop(s, keys, i) ==
    IF i > Len(keys) THEN [st |-> s, keys |-> keys]
    ELSE IF keys[i] \in Tables /\ CacheExpired(s, keys[i])
         THEN clearLoop([s EXCEPT !.cache[keys[i]] = None],
                        RemoveAt(keys, i), i + 1)
         ELSE clearLoop(s, keys, i + 1)

(* The order of the keys changes what clearExpiredCaches leaves only when *)
(* it runs (a write fails: storage is full) and finds two expired entries *)
(* or more.                                                                *)
OrderMatters(s) ==
    /\ s.storageFull
    /\ Cardinality({k \in Tables : CacheExpired(s, k)}) > 1

(* clearExpiredCaches: for (i = 0; i < localStorage.length; i++) over the *)
(* keys, removing the namespaced entries older than CACHE_EXPIRY          *)
clearExpiredCaches(s) == clearLoop(s, KeysOf(s), 1).st

(* setOfflineCache: when setItem raises (quota reached, value growing)    *)
(* the catch block clears the expired entries and the write is dropped.   *)
setOfflineCache(s, key, data) ==
    IF /\ s.storageFull
       /\ (s.cache[key] = None \/ Len(data) > Len(s.cache[key][1].data))
    THEN [clearExpiredCaches(s) EXCEPT !.lastPurge = @ \cup
            {[key |-> key, data |-> data, now |-> s.now, keys |-> KeysOf(s),
              found |-> s.cache, left |-> clearExpiredCaches(s).cache,
              keysLeft |-> clearLoop(s, KeysOf(s), 1).keys]}]
    ELSE [s EXCEPT !.cache[key] = Some([data |-> data, timestamp |-> s.now])]

(* getOfflineCache: the value read, and the storage after the read *)
getOfflineCache(s, key) ==
    IF s.cache[key] = None \/ CacheExpired(s, key)
    THEN None
    ELSE Some(s.cache[key][1].data)

AfterGetOfflineCache(s, key) ==
    IF CacheExpired(s, key) THEN [s EXCEPT !.cache[key] = None] ELSE s

----------------------------------------------------------------------------
(* The remote data service: per table, the rows, newest first.  Row-level *)
(* security lets a session see, change and create only its own rows; sess *)
(* is the signed-in owner when the request is served.                     *)

Visible(rows, sess) == SelectSeq(rows, LAMBDA r : r.owner = sess)

RemoteInsertAllowed(sess, owner) == sess # NoUser /\ sess = owner

RemoteInsert(s, t, owner, payload) ==
    [s EXCEPT !.nextSrv = @ + 1,
              !.remote[t] = <<Merge([id |-> SrvId(s.nextSrv + 1),
                                     owner |-> owner], payload)>> \o @]

RemoteUpdate(s, t, id, payload) ==
    LET Upd(r) == IF r.id = id /\ r.owner = s.user
                  THEN Merge(r, payload) ELSE r
    IN  [s EXCEPT !.remote[t] = MapSeq(s.remote[t], Upd)]

RemoteDelete(s, t, id) ==
    LET Keep(r) == ~(r.id = id /\ r.owner = s.user)
    IN  [s EXCEPT !.remote[t] = SelectSeq(s.remote[t], Keep)]

(* The row shape mapped to the entity shape (fetchData, addTransaction):  *)
(* the mapping of an investment sets no transactionId.                    *)
FromRow(t, r) ==
    CASE t = "transactions" -> [id |-> r.id, val |-> r.val,
                                category |-> r.category]
      [] t = "reminders" -> [id |-> r.id, val |-> r.val]
      [] t = "investments" -> [id |-> r.id, val |-> r.val,
                               jaInvestido |-> r.status = "completed",
                               transactionId |-> None]

----------------------------------------------------------------------------
(* TransactionContext.tsx: loading *)

FetchOrder == <<"transactions", "reminders", "investments">>

loadFromCache(s) ==
    LET Read(st, t) ==
            [AfterGetOfflineCache(st, t) EXCEPT !.lastReads = @ \cup
                {[key |-> t, entry |-> s.cache[t], now |-> s.now,
                  value |-> getOfflineCache(s, t),
                  left |-> AfterGetOfflineCache(s, t).cache[t]]}]
        Load(st, t) ==
            IF getOfflineCache(s, t) # None
            THEN SetColl(Read(st, t), t, getOfflineCache(s, t)[1])
            ELSE Read(st, t)
        s1 == Load(s, "transactions")
        s2 == Load(s1, "reminders")
        s3 == Load(s2, "investments")
    IN  [s3 EXCEPT !.loading = FALSE]

(* fetchData up to its first await; usr is the user of the calling closure *)
fetchData(s, usr) ==
    IF usr = NoUser THEN s
    ELSE [s EXCEPT !.loading = TRUE, !.fetches = Append(@, [pc |-> 1])]

(* One select of fetchData resolving.  "rows": data arrives and replaces   *)
(* the collection; "error": an error result, data is null; "throw": the    *)
(* await raises and the catch block loads the cache.                       *)
FetchOutcomes == {"rows", "error", "throw"}

fetchSelect(s, pc, outcome) ==
    LET t == FetchOrder[pc]
    IN  CASE outcome = "rows" ->
                SetColl(s, t, MapSeq(Visible(s.remote[t], s.user),
                                     LAMBDA r : FromRow(t, r)))
          [] outcome = "error" -> s
          [] outcome = "throw" -> loadFromCache(s)

fetchDone(pc, outcome) == outcome = "throw" \/ pc = Len(FetchOrder)

----------------------------------------------------------------------------
(* TransactionContext.tsx: the queue drain *)

(* The remote call processOperation makes for an operation, or "none" *)
RemoteCallOf(op) ==
    CASE op.action = "insert" -> "insert"
      [] op.action = "update" /\ op.entityId # None -> "update"
      [] op.action = "delete" /\ op.entityId # None -> "delete"
      [] OTHER -> "none"

(* Whether the remote service can accept the call from session sess *)
RemoteAccepts(kind, sess, owner) ==
    kind = "insert" => RemoteInsertAllowed(sess, owner)

(* processOperation, the call having succeeded: the remote state after it *)
processOperation(s, op, usr) ==
    CASE RemoteCallOf(op) = "insert" ->
            RemoteInsert(s, op.table, usr, op.payload[1])
      [] RemoteCallOf(op) = "update" ->
            RemoteUpdate(s, op.table, op.entityId[1], op.payload[1])
      [] RemoteCallOf(op) = "delete" ->
            RemoteDelete(s, op.table, op.entityId[1])
      [] OTHER -> s

(* The async function syncQueue ends; rows is the number of selects of    *)
(* its refetch that returned data.                                        *)
syncEnd(s, d, raised) ==
    [s EXCEPT !.drains = RemoveAt(@, d),
              !.lastEnd = Some([snapshot |-> s.drains[d].snapshot,
                                successCount |-> s.drains[d].successCount,
                                rows |-> s.drains[d].rows,
                                raised |-> raised])]

(* The end of syncQueue: release the guard *)
syncRelease(s, d) ==
    syncEnd([s EXCEPT !.syncingRef = FALSE, !.isSyncing = FALSE], d, FALSE)

(* syncQueue after its loop, removing only the operations that succeeded *)
syncAfterLoopPrefix(s, d) ==
    LET dr == s.drains[d]
        done == [s EXCEPT !.lastDrain =
                    Some([snapshot |-> dr.snapshot, calls |-> dr.calls,
                          successCount |-> dr.successCount,
                          cleared |-> dr.successCount > 0])]
    IN  IF dr.successCount > 0
        THEN LET rest == SubSeq(done.queue, dr.successCount + 1, Len(done.queue))
                 s1 == saveQueue([done EXCEPT !.queue = rest], rest)
             IN  [s1 EXCEPT !.loading = TRUE,
                            !.drains[d].pc = "fetch", !.drains[d].fetchPc = 1]
        ELSE syncRelease(done, d)

(* syncQueue after its loop *)
syncAfterLoop(s, d) ==
    LET dr == s.drains[d]
        done == [s EXCEPT !.lastDrain =
                    Some([snapshot |-> dr.snapshot, calls |-> dr.calls,
                          successCount |-> dr.successCount,
                          cleared |-> dr.successCount > 0])]
    IN  IF dr.successCount > 0
        THEN LET s1 == clearQueue(done)
             IN  [s1 EXCEPT !.loading = TRUE,
                            !.drains[d].pc = "fetch", !.drains[d].fetchPc = 1]
        ELSE syncRelease(done, d)

(* syncQueue at the head of its loop, about to handle snapshot[idx] *)
RECURSIVE syncLoop(_, _)
syncLoop(s, d) ==
    LET dr == s.drains[d]
    IN  IF dr.idx > Len(dr.snapshot) THEN syncAfterLoop(s, d)
        ELSE IF RemoteCallOf(dr.snapshot[dr.idx]) # "none"
        THEN [s EXCEPT !.drains[d].calls =
                 Append(@, [op |-> dr.snapshot[dr.idx].id,
                            table |-> dr.snapshot[dr.idx].table,
                            createdAt |-> dr.snapshot[dr.idx].createdAt,
                            res |-> "pending"])]
        ELSE syncLoop([s EXCEPT !.drains[d].idx = @ + 1,
                                !.drains[d].successCount = @ + 1], d)

(* syncQueue raising only the isSyncing state, not syncingRef.current *)
syncQueueNoRef(s, usr, q) ==
    IF usr = NoUser \/ s.syncingRef THEN s
    ELSE syncLoop([s EXCEPT !.isSyncing = TRUE,
                            !.drains = Append(@,
                                [pc |-> "ops", snapshot |-> q, idx |-> 1,
                                 successCount |-> 0, owner |-> usr,
                                 calls |-> <<>>, fetchPc |-> 0, rows |-> 0])],
                  Len(s.drains) + 1)

(* syncQueue up to its first await; usr and q are the closure's user and queue *)
syncQueue(s, usr, q) ==
    IF usr = NoUser \/ s.syncingRef THEN s
    ELSE syncLoop([s EXCEPT !.syncingRef = TRUE, !.isSyncing = TRUE,
                            !.drains = Append(@,
                                [pc |-> "ops", snapshot |-> q, idx |-> 1,
                                 successCount |-> 0, owner |-> usr,
                                 calls |-> <<>>, fetchPc |-> 0, rows |-> 0])],
                  Len(s.drains) + 1)

(* syncResume without the break: the loop goes on after a failed call *)
syncResumeNoBreak(s, d, ok) ==
    LET dr == s.drains[d]
        op == dr.snapshot[dr.idx]
        s1 == [s EXCEPT !.drains[d].calls[Len(dr.calls)].res =
                            IF ok THEN "ok" ELSE "err",
                        !.appliedIds = IF ok THEN @ \cup {op.id} ELSE @]
    IN  IF ok
        THEN syncLoop([processOperation(s1, op, dr.owner) EXCEPT
                          !.drains[d].idx = @ + 1,
                          !.drains[d].successCount = @ + 1], d)
        ELSE syncLoop([s1 EXCEPT !.drains[d].idx = @ + 1], d)

(* The awaited processOperation settles: ok, or the call raised *)
syncResume(s, d, ok) ==
    LET dr == s.drains[d]
        op == dr.snapshot[dr.idx]
        s1 == [s EXCEPT !.drains[d].calls[Len(dr.calls)].res =
                            IF ok THEN "ok" ELSE "err",
                        !.appliedIds = IF ok THEN @ \cup {op.id} ELSE @]
    IN  IF ok
        THEN syncLoop([processOperation(s1, op, dr.owner) EXCEPT
                          !.drains[d].idx = @ + 1,
                          !.drains[d].successCount = @ + 1], d)
        ELSE syncAfterLoop(s1, d)

(* The awaited processOperation raises although the request reached the  *)
(* service: the service has applied the operation, the response did not   *)
(* come back.  The catch block of the loop cannot tell this from a call   *)
(* that was refused.                                                      *)
syncLost(s, d) ==
    LET dr == s.drains[d]
        op == dr.snapshot[dr.idx]
        s1 == [s EXCEPT !.drains[d].calls[Len(dr.calls)].res = "err",
                        !.appliedIds = @ \cup {op.id}]
    IN  syncAfterLoop(processOperation(s1, op, dr.owner), d)

(* toast(): hooks/use-toast is not among the sources.  The call returns,  *)
(* or raises into syncQueue, which has no handler around it.              *)
ToastOutcomes == {"shown", "raise"}

(* Lines 121-128: the notification, then the release of the guard.  When  *)
(* toast raises, the async function ends there and lines 127-128 are not  *)
(* reached.                                                                *)
syncNotify(s, d, note) ==
    IF note = "raise"
    THEN syncEnd(s, d, TRUE)
    ELSE syncRelease(s, d)

(* syncFetch without the setLoading(false) of fetchData's finally block *)
syncFetchKeepsLoading(s, d, outcome, note) ==
    LET dr == s.drains[d]
        s1 == [fetchSelect(s, dr.fetchPc, outcome) EXCEPT
                   !.drains[d].rows = IF outcome = "rows" THEN @ + 1 ELSE @]
    IN  IF fetchDone(dr.fetchPc, outcome)
        THEN syncNotify([s1 EXCEPT !.loading = TRUE], d, note)
        ELSE [s1 EXCEPT !.drains[d].fetchPc = @ + 1]

(* One select of the drain's fetchData resolving; after the last one the  *)
(* drain goes on to its notification.                                      *)
syncFetch(s, d, outcome, note) ==
    LET dr == s.drains[d]
        s1 == [fetchSelect(s, dr.fetchPc, outcome) EXCEPT
                   !.drains[d].rows = IF outcome = "rows" THEN @ + 1 ELSE @]
    IN  IF fetchDone(dr.fetchPc, outcome)
        THEN syncNotify([s1 EXCEPT !.loading = FALSE], d, note)
        ELSE [s1 EXCEPT !.drains[d].fetchPc = @ + 1]

----------------------------------------------------------------------------
(* TransactionContext.tsx: the mutators.  One operator per kind stands for *)
(* the three collections' mutators, which differ only in the table.        *)

IssueRemote(s, kind, t, id, payload, mark) ==
    [s EXCEPT !.inflight = @ \cup
        {[n |-> s.nMut, kind |-> kind, table |-> t, id |-> id,
          val |-> payload, owner |-> s.user, phase |-> "sent",
          mark |-> mark]}]

(* addTransaction, addReminder, addInvestment, called with the fields of  *)
(* the new entity.  mark is the investment a markInvestmentAsDone call    *)
(* awaits the new transaction for, or None.                               *)
addEntityWith(s, t, fields, mark) ==
    IF s.user = NoUser THEN s
    ELSE IF ~s.isOnline
    THEN LET tempId == generateTempId(s)
             s1 == [s EXCEPT !.clock = @ + 1]
             s2 == SetColl(s1, t, <<Merge([id |-> tempId], fields)>>
                                      \o s1.colls[t])
         IN  enqueue(s2, [table |-> t, action |-> "insert",
                          payload |-> Some(ToRow(t, fields)),
                          entityId |-> None,
                          tempId |-> Some(tempId)])
    ELSE IssueRemote(s, "insert", t, None, ToRow(t, fields), mark)

addEntity(s, t, val) == addEntityWith(s, t, NewEntity(t, val), None)

(* updateTransaction, updateReminder, updateInvestment, called with a     *)
(* partial entity; online is the isOnline of the closure that calls it    *)
updateEntityWith(s, t, id, upd, online) ==
    IF s.user = NoUser THEN s
    ELSE LET Upd(e) == IF e.id = id THEN Merge(e, upd) ELSE e
             s1 == SetColl(s, t, MapSeq(s.colls[t], Upd))
         IN  IF ~online
             THEN IF ~startsWithTemp(id)
                  THEN enqueue(s1, [table |-> t, action |-> "update",
                                    payload |-> Some(UpdateData(upd)),
                                    entityId |-> Some(id),
                                    tempId |-> None])
                  ELSE s1
             ELSE IssueRemote(s1, "update", t, Some(id), UpdateData(upd), None)

updateEntity(s, t, id, val) ==
    updateEntityWith(s, t, id, [val |-> val], s.isOnline)

(* The second step of markInvestmentAsDone without the back-reference *)
markUpdateNoLink(s, id, transactionId, online) ==
    updateEntityWith(s, "investments", id, [jaInvestido |-> TRUE], online)

(* The second step of markInvestmentAsDone, run when addTransaction has   *)
(* returned the id of the new transaction                                 *)
markUpdate(s, id, transactionId, online) ==
    updateEntityWith(s, "investments", id,
                     [jaInvestido |-> TRUE, transactionId |-> Some(transactionId)],
                     online)

(* addTransaction after its awaited insert returned the new row; a        *)
(* markInvestmentAsDone call that awaited it goes on with its update.     *)
addEntityResolved(s, m) ==
    LET s1 == [s EXCEPT !.inflight = @ \ {m}]
        row == Merge([id |-> m.id[1], owner |-> m.owner], m.val)
        s2 == SetColl(s1, m.table, <<FromRow(m.table, row)>> \o s1.colls[m.table])
    IN  IF m.mark = None THEN s2
        ELSE markUpdate([s2 EXCEPT !.lastMut =
                            Some([kind |-> "markdone", table |-> "investments",
                                  id |-> m.mark, val |-> m.val.val,
                                  online |-> TRUE, owner |-> m.owner])],
                        m.mark[1], m.id[1], TRUE)

(* markInvestmentAsDone up to its first await *)
markInvestmentAsDone(s, id) ==
    LET found == SelectSeq(s.colls["investments"], LAMBDA i : i.id = id)
    IN  IF s.user = NoUser THEN s
        ELSE IF found = <<>> \/ found[1].jaInvestido THEN s
        ELSE LET fields == [val |-> found[1].val, category |-> "investment"]
             IN  IF ~s.isOnline
                 THEN markUpdate(addEntityWith(s, "transactions", fields, None),
                                 id, generateTempId(s), FALSE)
                 ELSE addEntityWith(s, "transactions", fields, Some(id))

(* deleteEntity without its test of the user *)
deleteEntityNoOwnerTest(s, t, id) ==
    LET Keep(e) == e.id # id
        s1 == SetColl(s, t, SelectSeq(s.colls[t], Keep))
    IN  IF ~s.isOnline
        THEN IF ~startsWithTemp(id)
             THEN enqueue(s1, [table |-> t, action |-> "delete",
                               payload |-> None, entityId |-> Some(id),
                               tempId |-> None])
             ELSE s1
        ELSE IssueRemote(s1, "delete", t, Some(id), None, None)

(* deleteEntity enqueuing the id as a payload too *)
deleteEntityWithPayload(s, t, id) ==
    IF s.user = NoUser THEN s
    ELSE LET Keep(e) == e.id # id
             s1 == SetColl(s, t, SelectSeq(s.colls[t], Keep))
         IN  IF ~s.isOnline
             THEN IF ~startsWithTemp(id)
                  THEN enqueue(s1, [table |-> t, action |-> "delete",
                                    payload |-> Some([id |-> id]),
                                    entityId |-> Some(id), tempId |-> None])
                  ELSE s1
             ELSE IssueRemote(s1, "delete", t, Some(id), None, None)

(* deleteTransaction, deleteReminder, deleteInvestment *)
deleteEntity(s, t, id) ==
    IF s.user = NoUser THEN s
    ELSE LET Keep(e) == e.id # id
             s1 == SetColl(s, t, SelectSeq(s.colls[t], Keep))
         IN  IF ~s.isOnline
             THEN IF ~startsWithTemp(id)
                  THEN enqueue(s1, [table |-> t, action |-> "delete",
                                    payload |-> None, entityId |-> Some(id),
                                    tempId |-> None])
                  ELSE s1
             ELSE IssueRemote(s1, "delete", t, Some(id), None, None)

(* remoteServe putting a failed update or delete in the queue for a retry *)
remoteServeRetry(s, m, ok) ==
    LET s1 == [s EXCEPT !.inflight = @ \ {m}]
    IN  IF ~ok
        THEN IF m.kind = "insert" THEN s1
             ELSE enqueue(s1, [table |-> m.table, action |-> m.kind,
                               payload |-> IF m.kind = "update" THEN Some(m.val)
                                           ELSE None,
                               entityId |-> m.id, tempId |-> None])
        ELSE CASE m.kind = "insert" ->
                    LET s2 == RemoteInsert(s1, m.table, m.owner, m.val)
                    IN  [s2 EXCEPT !.inflight = @ \cup
                            {[m EXCEPT !.phase = "served",
                                       !.id = Some(SrvId(s2.nextSrv))]}]
               [] m.kind = "update" -> RemoteUpdate(s1, m.table, m.id[1], m.val)
               [] m.kind = "delete" -> RemoteDelete(s1, m.table, m.id[1])

(* The remote service serves the call of an online mutation.  An insert's  *)
(* row reaches the client in a later task (addEntityResolved); the result  *)
(* of an update or delete, and every error, is only logged.                *)
remoteServe(s, m, ok) ==
    LET s1 == [s EXCEPT !.inflight = @ \ {m}]
    IN  IF ~ok THEN s1
        ELSE CASE m.kind = "insert" ->
                    LET s2 == RemoteInsert(s1, m.table, m.owner, m.val)
                    IN  [s2 EXCEPT !.inflight = @ \cup
                            {[m EXCEPT !.phase = "served",
                                       !.id = Some(SrvId(s2.nextSrv))]}]
               [] m.kind = "update" -> RemoteUpdate(s1, m.table, m.id[1], m.val)
               [] m.kind = "delete" -> RemoteDelete(s1, m.table, m.id[1])

----------------------------------------------------------------------------
(* TransactionProvider: the effects of a render *)

(* Lines 52-65: runs when user or isOnline changed *)
loadEffect(s) ==
    IF s.user # NoUser
    THEN IF s.isOnline THEN fetchData(s, s.user) ELSE loadFromCache(s)
    ELSE [SetColl(SetColl(SetColl(s, "transactions", <<>>), "reminders", <<>>),
                  "investments", <<>>) EXCEPT !.loading = FALSE]

(* The sync effect without its isOnline test *)
syncEffectRunAnyConnectivity(s) ==
    IF s.user # NoUser /\ pendingCount(s) > 0 /\ ~s.syncingRef
    THEN [syncQueue(s, s.user, s.queue) EXCEPT !.syncEffect = "started"]
    ELSE [s EXCEPT !.syncEffect =
            IF s.user # NoUser /\ pendingCount(s) > 0
            THEN "suppressed" ELSE "skipped"]

(* Lines 68-72: runs when isOnline, user or pendingCount changed *)
syncEffectRun(s) ==
    IF s.isOnline /\ s.user # NoUser /\ pendingCount(s) > 0 /\ ~s.syncingRef
    THEN [syncQueue(s, s.user, s.queue) EXCEPT !.syncEffect = "started"]
    ELSE [s EXCEPT !.syncEffect =
            IF s.isOnline /\ s.user # NoUser /\ pendingCount(s) > 0
            THEN "suppressed" ELSE "skipped"]

(* Lines 85-95: run for a collection when it or user changed; colls and   *)
(* usr are those of the render the effect belongs to                       *)
cacheEffects(s, colls, usr, ts) ==
    LET Run(st, t) == IF t \in ts /\ usr # NoUser /\ Len(colls[t]) > 0
                      THEN setOfflineCache(st, t, colls[t]) ELSE st
    IN  Run(Run(Run(s, "transactions"), "reminders"), "investments")

(* The render after a task that left the state new, and its effects in    *)
(* declaration order; the collections the load effect sets cause a second *)
(* render, whose cache effects run too.  The bound of the model on the    *)
(* running fetches is a guard of the step.  The order of the keys in      *)
(* storage is left to the browser: every order is drawn when it matters.  *)
RenderFrom(new, depsLoad, depsSync, depsUser) ==
    \E o \in IF OrderMatters(new) THEN StorageOrders ELSE {KeyOrder} :
    \E a \in {[new EXCEPT !.touched = {}, !.order = o]} :
    \E s1 \in {IF depsLoad THEN loadEffect(a) ELSE a} :
    \E s2 \in {IF depsSync THEN syncEffectRun(s1) ELSE s1} :
    \E s3 \in {cacheEffects(s2, new.colls, new.user,
                            IF depsUser THEN Tables ELSE new.touched)} :
    \E s4 \in {cacheEffects(s3, s3.colls, s3.user, s1.touched)} :
        /\ Len(s4.fetches) <= MaxFetches
        /\ Set(s4)

Render(new) ==
    RenderFrom(new,
               new.user # user \/ new.isOnline # isOnline,
               new.user # user \/ new.isOnline # isOnline
                   \/ pendingCount(new) # Len(queue),
               new.user # user)

(* A page reload: the in-memory state is rebuilt by the initialisers      *)
(* (useState(loadQueue), empty collections, guard lowered); the running   *)
(* async functions are gone with the page; storage and the remote service *)
(* stay.                                                                   *)
reload(s) ==
    [s EXCEPT !.user = NoUser,
              !.nReload = @ + 1,
              !.queue = loadQueue(s),
              !.colls = [t \in Tables |-> <<>>],
              !.syncingRef = FALSE, !.isSyncing = FALSE,
              !.loading = TRUE,
              !.drains = <<>>, !.fetches = <<>>, !.inflight = {}]

----------------------------------------------------------------------------
(* Actions *)

Step(new, ev) == \E s \in {[new EXCEPT !.event = ev]} : Render(s)

Called(kind, t, id, val) ==
    [St EXCEPT !.nMut = @ + 1,
               !.lastMut = Some([kind |-> kind, table |-> t, id |-> id,
                                 val |-> val, online |-> isOnline,
                                 owner |-> user])]

GoOnline ==
    /\ ~isOnline
    /\ Step([St EXCEPT !.isOnline = TRUE], "online")

GoOffline ==
    /\ isOnline
    /\ Step([St EXCEPT !.isOnline = FALSE], "offline")

SignIn ==
    /\ user = NoUser
    /\ \E u \in Owners : Step([St EXCEPT !.user = u], "signin")

(* Another user signs in on the same device *)
SignInOther ==
    /\ user = NoUser
    /\ Step([St EXCEPT !.user = OtherOwner], "signin")

SignOut ==
    /\ user # NoUser
    /\ Step([St EXCEPT !.user = NoUser], "signout")

(* The page is reloaded.  The provider mounts with no user (the load      *)
(* effect clears the collections); the session, when there was one, is    *)
(* then restored and the effects run for the restored user.  A remote     *)
(* call the drain was waiting for has reached the service or not.         *)
Reload ==
    \E applied \in BOOLEAN :
        /\ nReload < MaxReloads
        /\ applied => /\ Len(drains) = 1
                      /\ drains[1].pc = "ops"
                      /\ RemoteAccepts(
                            RemoteCallOf(drains[1].snapshot[drains[1].idx]),
                            user, drains[1].owner)
        /\ \E s0 \in {IF applied
                       THEN [processOperation(St,
                                drains[1].snapshot[drains[1].idx],
                                drains[1].owner)
                             EXCEPT !.appliedIds = @ \cup
                                {drains[1].snapshot[drains[1].idx].id}]
                       ELSE St} :
           \E s1 \in {[loadEffect(reload(s0)) EXCEPT !.event = "reload"]} :
                IF user = NoUser
                THEN Set(s1)
                ELSE RenderFrom([s1 EXCEPT !.user = user], TRUE, TRUE, TRUE)

(* Time passes: half a day, or an hour more *)
Tick ==
    \E h \in {12, 13} :
        /\ now + h <= MaxNow
        /\ Step([St EXCEPT !.now = @ + h], "tick")

StorageFills ==
    /\ ~storageFull
    /\ Step([St EXCEPT !.storageFull = TRUE], "full")

StorageFrees ==
    /\ storageFull
    /\ Step([St EXCEPT !.storageFull = FALSE], "freed")

CanMutate(max) ==
    /\ nMut < max
    /\ user # NoUser
    /\ isOnline => Cardinality(inflight) < MaxInflight

Add ==
    \E t \in Tables, v \in Vals :
         Step(addEntity(Called("insert", t, None, v), t, v), "mutate")

Update ==
    \E t \in Tables, v \in Vals :
         \E id \in Ids(St.colls[t]) :
            Step(updateEntity(Called("update", t, Some(id), v), t, id, v), "mutate")

Delete ==
    \E t \in Tables :
         \E id \in Ids(St.colls[t]) :
            Step(deleteEntity(Called("delete", t, Some(id), 0), t, id), "mutate")

MarkDone ==
    \E id \in Ids(St.colls["investments"]) :
        Step(markInvestmentAsDone(Called("mark", "investments", Some(id), 0), id),
             "mutate")

(* A mutation entry point is called while no user is signed in, for an   *)
(* entity on display or any other id.                                     *)
callMutator(s, kind, t, id, v) ==
    CASE kind = "insert" -> addEntity(s, t, v)
      [] kind = "update" -> updateEntity(s, t, id, v)
      [] kind = "delete" -> deleteEntity(s, t, id)
      [] kind = "mark" -> markInvestmentAsDone(s, id)

NoOwnerCall ==
    /\ user = NoUser
    /\ \E kind \in Actions \cup {"mark"}, t \in Tables, v \in Vals :
         \E id \in Ids(St.colls[t]) \cup {SrvId(1)} :
            Step(callMutator(St, kind, t, id, v), "nocall")

RemoteServe ==
    \E m \in inflight, ok \in BOOLEAN :
        /\ m.phase = "sent"
        /\ ok => RemoteAccepts(m.kind, user, m.owner)
        /\ Step(remoteServe(St, m, ok), IF ok THEN "served" ELSE "failed")

AddResolved ==
    \E m \in inflight :
        /\ m.phase = "served"
        /\ Step(addEntityResolved(St, m), "resolved")

FetchStep ==
    \E i \in 1..Len(fetches), outcome \in FetchOutcomes :
        LET s1 == fetchSelect(St, fetches[i].pc, outcome)
        IN  Step(IF fetchDone(fetches[i].pc, outcome)
                 THEN [s1 EXCEPT !.loading = FALSE, !.fetches = RemoveAt(@, i)]
                 ELSE [s1 EXCEPT !.fetches[i].pc = @ + 1], "fetched")

SyncResume ==
    \E d \in 1..Len(drains), ok \in BOOLEAN :
        /\ drains[d].pc = "ops"
        /\ ok => RemoteAccepts(RemoteCallOf(drains[d].snapshot[drains[d].idx]),
                               user, drains[d].owner)
        /\ Step(syncResume(St, d, ok), "synced")

(* Connectivity went away after the request of a drain was sent: the      *)
(* service applies it, the client sees the call fail.  The model lets     *)
(* this happen once per operation, which keeps the remote rows bounded.   *)
SyncLost ==
    \E d \in 1..Len(drains) :
        /\ drains[d].pc = "ops"
        /\ ~isOnline
        /\ drains[d].snapshot[drains[d].idx].id \notin appliedIds
        /\ RemoteAccepts(RemoteCallOf(drains[d].snapshot[drains[d].idx]),
                         user, drains[d].owner)
        /\ Step(syncLost(St, d), "lost")

SyncFetch ==
    \E d \in 1..Len(drains), outcome \in FetchOutcomes, note \in ToastOutcomes :
        /\ drains[d].pc = "fetch"
        /\ note = "raise" => fetchDone(drains[d].fetchPc, outcome)
        /\ Step(syncFetch(St, d, outcome, note), "syncfetched")

----------------------------------------------------------------------------
(* The state after the provider mounted on a fresh device: no user yet,   *)
(* empty storage; the remote service holds one transaction of the owner.  *)

Mounted ==
    /\ user = NoUser
    /\ isOnline \in BOOLEAN
    /\ queue = <<>>
    /\ lsQueue = <<>>
    /\ syncingRef = FALSE
    /\ isSyncing = FALSE
    /\ transactions = <<>>
    /\ reminders = <<>>
    /\ investments = <<>>
    /\ loading = FALSE
    /\ cache = [t \in Tables |-> None]
    /\ now = 0
    /\ clock = 0
    /\ drains = <<>>
    /\ lastDrain = None
    /\ lastEnd = None
    /\ fetches = <<>>
    /\ inflight = {}
    /\ nMut = 0
    /\ lastMut = None
    /\ storageFull = FALSE
    /\ nReload = 0
    /\ lastReads = {}
    /\ lastPurge = {}
    /\ appliedIds = {}
    /\ syncEffect = "none"
    /\ event = "init"

(* The remote service holds one transaction of the owner *)
Init ==
    /\ Mounted
    /\ remote = [t \in Tables |->
                    IF t = "transactions"
                    THEN <<[id |-> SrvId(1), owner |-> "u1", val |-> 0,
                            category |-> "other"]>>
                    ELSE <<>>]
    /\ nextSrv = 1

(* The remote service holds one investment of the owner, not yet invested *)
InvInit ==
    /\ Mounted
    /\ remote = [t \in Tables |->
                    IF t = "investments"
                    THEN <<[id |-> SrvId(1), owner |-> "u1", val |-> 1,
                            status |-> "active"]>>
                    ELSE <<>>]
    /\ nextSrv = 1

(* The drain: the queue is filled offline, connectivity and the owner    *)
(* change at any time, the drain and the fetches run.                     *)
OfflineAdd == ~isOnline /\ CanMutate(MaxQueued) /\ Add
OfflineUpdate == ~isOnline /\ CanMutate(MaxQueued) /\ Update
OfflineDelete == ~isOnline /\ CanMutate(MaxQueued) /\ Delete

Next ==
    \/ GoOnline
    \/ GoOffline
    \/ SignIn
    \/ SignOut
    \/ OfflineAdd
    \/ OfflineUpdate
    \/ OfflineDelete
    \/ FetchStep
    \/ SyncResume
    \/ SyncFetch

Spec == Init /\ [][Next]_vars

(* The reconnection scenario: the owner signs in and stays, mutations are *)
(* made offline, connectivity returns and stays.                          *)
ScenarioNext ==
    \/ GoOnline
    \/ SignIn
    \/ OfflineAdd
    \/ OfflineUpdate
    \/ OfflineDelete
    \/ FetchStep
    \/ SyncResume
    \/ SyncFetch

ScenarioSpec == Init /\ [][ScenarioNext]_vars

(* The owner comes and goes while the queue is filled and drained, and   *)
(* the mutation entry points are called with no owner.                    *)
OwnerNext ==
    \/ GoOnline
    \/ GoOffline
    \/ SignIn
    \/ SignOut
    \/ OfflineAdd
    \/ NoOwnerCall
    \/ FetchStep
    \/ SyncResume
    \/ SyncFetch

OwnerSpec == Init /\ [][OwnerNext]_vars

(* The cache over time: collections are cached, time passes, and the     *)
(* cache is read when the user signs in offline, when connectivity goes   *)
(* or when a fetch fails.                                                  *)
CacheNext ==
    \/ GoOffline
    \/ SignIn
    \/ SignOut
    \/ OfflineAdd
    \/ Tick
    \/ FetchStep

CacheSpec == Init /\ [][CacheNext]_vars

(* Durability: offline mutations and page reloads, with the drain and    *)
(* the fetches.                                                           *)
ReloadNext ==
    \/ GoOnline
    \/ GoOffline
    \/ SignIn
    \/ OfflineAdd
    \/ OfflineUpdate
    \/ OfflineDelete
    \/ Reload
    \/ FetchStep
    \/ SyncResume
    \/ SyncFetch

ReloadSpec == Init /\ [][ReloadNext]_vars

(* Loading: the owner comes and goes, connectivity comes and goes, one    *)
(* mutation is queued and drained.  The remote service answers every      *)
(* select, with rows, an error or an exception: a select that has been    *)
(* sent resolves.                                                          *)
LoadAdd == ~isOnline /\ CanMutate(MaxLoadMut) /\ Add

LoadNext ==
    \/ GoOnline
    \/ GoOffline
    \/ SignIn
    \/ SignOut
    \/ LoadAdd
    \/ FetchStep
    \/ SyncResume
    \/ SyncFetch

LoadSpec ==
    /\ Init
    /\ [][LoadNext]_vars
    /\ WF_vars(FetchStep)
    /\ WF_vars(SyncFetch)

(* Two users of one device: one signs out, the other signs in, while an  *)
(* operation is queued and connectivity returns.                          *)
TwoOwnerNext ==
    \/ GoOnline
    \/ SignIn
    \/ SignInOther
    \/ SignOut
    \/ LoadAdd
    \/ FetchStep
    \/ SyncResume
    \/ SyncFetch

TwoOwnerSpec == Init /\ [][TwoOwnerNext]_vars

(* Delivery: connectivity comes and goes while a drain waits for the     *)
(* service; a call that fails may or may not have been applied.           *)
DeliveryNext ==
    \/ GoOnline
    \/ GoOffline
    \/ SignIn
    \/ LoadAdd
    \/ FetchStep
    \/ SyncResume
    \/ SyncLost
    \/ SyncFetch

DeliverySpec == Init /\ [][DeliveryNext]_vars

(* The purge: collections are cached offline, time passes, the quota of  *)
(* localStorage is reached and a further cache write fails.               *)
StoreAdd == ~isOnline /\ CanMutate(MaxStored) /\ Add

PurgeNext ==
    \/ SignIn
    \/ StoreAdd
    \/ Tick
    \/ StorageFills
    \/ FetchStep

PurgeSpec == Init /\ [][PurgeNext]_vars

(* Storage: the quota of localStorage is reached and freed while the     *)
(* queue is filled offline and, once connectivity returns, drained.       *)
StoreNext ==
    \/ GoOnline
    \/ SignIn
    \/ OfflineAdd
    \/ StorageFills
    \/ StorageFrees
    \/ FetchStep
    \/ SyncResume
    \/ SyncFetch

StoreSpec == Init /\ [][StoreNext]_vars

(* markInvestmentAsDone, online and offline, with its remote calls, the  *)
(* drain and the fetches.                                                 *)
MarkInvestment == CanMutate(MaxMut) /\ MarkDone

InvNext ==
    \/ GoOnline
    \/ GoOffline
    \/ SignIn
    \/ MarkInvestment
    \/ RemoteServe
    \/ AddResolved
    \/ FetchStep
    \/ SyncResume
    \/ SyncFetch

InvSpec == InvInit /\ [][InvNext]_vars

(* markInvestmentAsDone called again while the remote calls of an earlier *)
(* call have not resolved (the button is pressed twice).                  *)
MarkConcurrent ==
    /\ nMut < MaxMut
    /\ user # NoUser
    /\ Cardinality(inflight) < MaxMarkInflight
    /\ MarkDone

DoubleMarkNext ==
    \/ GoOnline
    \/ GoOffline
    \/ SignIn
    \/ MarkConcurrent
    \/ RemoteServe
    \/ AddResolved
    \/ FetchStep

DoubleMarkSpec == InvInit /\ [][DoubleMarkNext]_vars

(* The mutators, online and offline, with their remote calls *)
MutAdd == CanMutate(MaxMut) /\ Add
MutUpdate == CanMutate(MaxMut) /\ Update
MutDelete == CanMutate(MaxMut) /\ Delete

MutNext ==
    \/ GoOnline
    \/ GoOffline
    \/ SignIn
    \/ MutAdd
    \/ MutUpdate
    \/ MutDelete
    \/ RemoteServe
    \/ AddResolved
    \/ FetchStep
    \/ SyncResume
    \/ SyncFetch

MutSpec == Init /\ [][MutNext]_vars

----------------------------------------------------------------------------
(* Properties *)

(* The drain passes on record: those running, and the one whose loop ended *)
(* in the last step.                                                       *)
Passes == {drains[d] : d \in 1..Len(drains)} \cup
          {lastDrain[i] : i \in 1..Len(lastDrain)}

EnqueueOrder(ops) ==
    \A i, j \in 1..Len(ops) : i < j => ops[i].createdAt < ops[j].createdAt

FailedAt(p) == {k \in 1..Len(p.calls) : p.calls[k].res = "err"}

(* C1: in every drain pass the remote service is called for the operations *)
(* of the snapshotted queue in the order they were enqueued: the queue and *)
(* the snapshot are in enqueue order (enqueue appends at the tail), the     *)
(* k-th call of the pass is for the k-th operation of the snapshot, and of *)
(* two calls for the same table the earlier is for the operation enqueued  *)
(* first.                                                                  *)
C1_ReplayInEnqueueOrder ==
    /\ EnqueueOrder(queue)
    /\ \A p \in Passes :
        /\ EnqueueOrder(p.snapshot)
        /\ Len(p.calls) <= Len(p.snapshot)
        /\ \A k \in 1..Len(p.calls) : p.calls[k].op = p.snapshot[k].id
        /\ \A i, j \in 1..Len(p.calls) :
              i < j /\ p.calls[i].table = p.calls[j].table
                 => p.calls[i].createdAt < p.calls[j].createdAt

(* A pass has called the remote service for two operations of one table *)
C1_Witness ==
    \E p \in Passes :
        /\ Len(p.calls) >= 2
        /\ p.calls[1].table = p.calls[2].table
        /\ p.calls[1].res = "ok"

(* C2: in a drain pass, a call that returned an error is the last call of *)
(* the pass: no call is issued for any later position of the snapshot.    *)
C2_StopOnFirstError ==
    \A p \in Passes : \A k \in FailedAt(p) : k = Len(p.calls)

(* A pass stopped at a failing operation that was not the last of its snapshot *)
C2_Witness ==
    \E p \in Passes : \E k \in FailedAt(p) : k < Len(p.snapshot)

(* C3: at most one drain runs at any time, the guard is raised while one   *)
(* runs, and a sync effect that finds the guard raised (online, owner      *)
(* present, operations pending) starts nothing: no remote call is issued   *)
(* and the queue, the guard and the running drain are unchanged.           *)
C3_OneDrainAtATime ==
    [][/\ Len(drains') <= 1
       /\ Len(drains') = 1 => syncingRef'
       /\ syncEffect' = "suppressed"
            => UNCHANGED <<queue, lsQueue, syncingRef, isSyncing, drains,
                           remote, nextSrv>>]_vars

(* The sync effect ran with operations pending while a drain was running *)
C3_Witness ==
    /\ syncEffect = "suppressed"
    /\ Len(drains) = 1
    /\ Len(queue) > 0

(* Whether seg occurs in list as a run of consecutive elements *)
Contains(list, seg) ==
    \E o \in 0..(Len(list) - Len(seg)) :
        SubSeq(list, o + 1, o + Len(seg)) = seg

IsPrefix(a, b) == Len(a) <= Len(b) /\ SubSeq(b, 1, Len(a)) = a

(* C4: when the loop of a drain pass ends at a failing operation, that    *)
(* operation and every operation after it in the snapshot are still in    *)
(* the queue, in their order.                                             *)
C4_FailedTailStaysQueued ==
    [][lastDrain' # None =>
        \A k \in FailedAt(lastDrain'[1]) :
            Contains(queue', SubSeq(lastDrain'[1].snapshot, k,
                                    Len(lastDrain'[1].snapshot)))]_vars

(* C5: when the loop of a drain pass ends with at least one success, the  *)
(* queue is empty in memory and in storage; when it ends with none, the   *)
(* step leaves both as they were, the snapshot still at the head.         *)
C5_ClearAllOrNothing ==
    [][lastDrain' # None =>
        IF lastDrain'[1].successCount > 0
        THEN queue' = <<>> /\ lsQueue' = <<>>
        ELSE /\ UNCHANGED <<queue, lsQueue>>
             /\ IsPrefix(lastDrain'[1].snapshot, queue')]_vars

(* A pass ended with a success and a failure, and the queue is empty *)
C5_Witness ==
    /\ lastDrain # None
    /\ lastDrain[1].successCount > 0
    /\ FailedAt(lastDrain[1]) # {}
    /\ queue = <<>>
    /\ lsQueue = <<>>

(* A pass ended with no success, and its operations are queued *)
C5_WitnessNoSuccess ==
    /\ lastDrain # None
    /\ lastDrain[1].successCount = 0
    /\ Len(queue) > 0

(* C6: the queue is cleared at the end of a drain pass only if every      *)
(* operation of the snapshot was dispatched without error.                *)
C6_ClearOnlyAfterFullSuccess ==
    [][lastDrain' # None /\ lastDrain'[1].cleared =>
        /\ lastDrain'[1].successCount = Len(lastDrain'[1].snapshot)
        /\ FailedAt(lastDrain'[1]) = {}]_vars

(* C7: every drain that starts releases the guard: the step in which a   *)
(* syncQueue call ends, by returning or by an exception of a step after   *)
(* its loop, leaves syncingRef and isSyncing lowered.  Nothing but the    *)
(* end of syncQueue lowers them, so a call that ends with the guard       *)
(* raised leaves the store in Syncing forever.                            *)
C7_GuardReleased ==
    [][Len(drains') < Len(drains) => ~syncingRef' /\ ~isSyncing']_vars

Coll(t) ==
    CASE t = "transactions" -> transactions
      [] t = "reminders" -> reminders
      [] t = "investments" -> investments

CollNext(t) ==
    CASE t = "transactions" -> transactions'
      [] t = "reminders" -> reminders'
      [] t = "investments" -> investments'

(* The change a mutator call makes to its collection: insert prepends,    *)
(* update merges by id, delete filters out by id.                         *)
Reflects(m, before, after) ==
    CASE m.kind = "insert" ->
            /\ Len(after) = Len(before) + 1
            /\ Tail(after) = before
            /\ Head(after).val = m.val
      [] m.kind = "update" ->
            after = MapSeq(before, LAMBDA e : IF e.id = m.id[1]
                                             THEN [e EXCEPT !.val = m.val]
                                             ELSE e)
      [] m.kind = "delete" ->
            after = SelectSeq(before, LAMBDA e : e.id # m.id[1])

(* C9: a mutator called with an owner present, online or offline, has     *)
(* changed its in-memory collection by the end of the task that called    *)
(* it, before any remote call of the mutation resolves.                   *)
C9_OptimisticBeforeRemote ==
    [][lastMut' # None /\ lastMut'[1].owner # NoUser =>
        Reflects(lastMut'[1], Coll(lastMut'[1].table),
                 CollNext(lastMut'[1].table))]_vars

(* C10: a mutator called offline with an owner present issues no remote   *)
(* call and appends exactly one operation, of its table and action, to    *)
(* the queue, whatever the target id.                                     *)
C10_OfflineEnqueuesOne ==
    [][lastMut' # None /\ lastMut'[1].owner # NoUser /\ ~lastMut'[1].online =>
        /\ inflight' = inflight
        /\ remote' = remote
        /\ Len(queue') = Len(queue) + 1
        /\ SubSeq(queue', 1, Len(queue)) = queue
        /\ queue'[Len(queue')].table = lastMut'[1].table
        /\ queue'[Len(queue')].action = lastMut'[1].kind]_vars

(* C11: an offline insert of X followed by an offline update of X by its  *)
(* temporary id is replayed as an insert and then an update of X.  A      *)
(* drain calls the remote service only for the operations of the queue it *)
(* snapshots, in their order, so once the update was called the queue     *)
(* must hold, after the insert that carries X's temporary id, an update   *)
(* operation for X.                                                        *)
C11_TempUpdateReplayed ==
    [][/\ lastMut' # None
       /\ lastMut'[1].kind = "update"
       /\ lastMut'[1].owner # NoUser
       /\ ~lastMut'[1].online
       /\ startsWithTemp(lastMut'[1].id[1])
       /\ \E i \in 1..Len(queue) :
            queue[i].action = "insert" /\ queue[i].tempId = lastMut'[1].id
       => \E i, j \in 1..Len(queue') :
            /\ i < j
            /\ queue'[i].action = "insert"
            /\ queue'[i].tempId = lastMut'[1].id
            /\ queue'[j].action = "update"
            /\ queue'[j].table = lastMut'[1].table
            /\ queue'[j].entityId = lastMut'[1].id]_vars

(* C12: a page reload right after an offline mutation, still offline,     *)
(* rebuilds the mutated collection as the mutation left it (also when a   *)
(* delete left it empty) and the queue as the mutation left it, with the  *)
(* operation the mutation enqueued.                                       *)
C12_ReloadKeepsOfflineMutation ==
    [][/\ event' = "reload"
       /\ lastMut # None
       /\ lastMut[1].owner # NoUser
       /\ ~lastMut[1].online
       /\ ~isOnline
       /\ ~storageFull
       => /\ CollNext(lastMut[1].table) = Coll(lastMut[1].table)
          /\ queue' = queue]_vars

(* The step in which the transaction of a markInvestmentAsDone call is    *)
(* added: the call itself offline, the return of the insert online.       *)
MarkCompletes(m) ==
    \/ m.kind = "markdone"
    \/ /\ m.kind = "mark" /\ ~m.online /\ m.owner # NoUser
       /\ \E i \in 1..Len(investments) :
             investments[i].id = m.id[1] /\ ~investments[i].jaInvestido

C13_WitnessOffline ==
    /\ lastMut # None
    /\ lastMut[1].kind = "mark"
    /\ ~lastMut[1].online
    /\ \E i \in 1..Len(investments) :
          /\ investments[i].jaInvestido
          /\ investments[i].transactionId = Some(Head(transactions).id)
          /\ startsWithTemp(Head(transactions).id)

(* A drain returned after every operation of its snapshot succeeded and   *)
(* every select of its refetch returned rows                              *)
DrainSucceeded(e) ==
    /\ e # None
    /\ ~e[1].raised
    /\ e[1].successCount = Len(e[1].snapshot)
    /\ e[1].rows = Len(FetchOrder)

(* C14: when a drain that replayed the insert of a transaction spawned    *)
(* offline by markInvestmentAsDone returns successfully, the investment   *)
(* that pointed at the transaction's temporary id points at a permanent   *)
(* id, that of a transaction in the collection.                           *)
C14_BackReferenceRewritten ==
    [][DrainSucceeded(lastEnd') =>
        \A i \in 1..Len(investments) :
            /\ investments[i].transactionId # None
            /\ startsWithTemp(investments[i].transactionId[1])
            /\ \E k \in 1..Len(lastEnd'[1].snapshot) :
                  lastEnd'[1].snapshot[k].tempId = investments[i].transactionId
            => \E j \in 1..Len(investments') :
                  /\ investments'[j].id = investments[i].id
                  /\ investments'[j].transactionId # None
                  /\ ~startsWithTemp(investments'[j].transactionId[1])
                  /\ investments'[j].transactionId[1] \in Ids(transactions')]_vars

(* A call of a mutation entry point with no owner changes nothing *)
NoOwnerCallIsNoOp ==
    event' = "nocall"
        => UNCHANGED <<transactions, reminders, investments, queue, lsQueue,
                       cache, remote, nextSrv, inflight, drains, fetches>>

(* C15, as stated: with no owner, a call of a mutation entry point leaves *)
(* the collections, the queue and the cache unchanged and issues no       *)
(* remote call, and no drain is running.                                  *)
C15_NoOwnerNoOpsNoDrain ==
    [][/\ NoOwnerCallIsNoOp
       /\ user' = NoUser => Len(drains') = 0]_vars

(* C15, amended: with no owner, a call of a mutation entry point leaves   *)
(* the collections, the queue and the cache unchanged and issues no       *)
(* remote call, and no drain is started.                                  *)
C15_NoOwnerNoOpsNoStart ==
    [][/\ NoOwnerCallIsNoOp
       /\ user' = NoUser => /\ Len(drains') <= Len(drains)
                            /\ syncEffect' # "started"]_vars

(* A mutation entry point was called with no owner while an entity was   *)
(* on display and an operation queued                                     *)
C15_Witness ==
    /\ event = "nocall"
    /\ user = NoUser
    /\ Len(transactions) > 0
    /\ Len(queue) > 0

(* C16: a getOfflineCache() call that finds an entry older than 24 hours  *)
(* returns absent and the entry is gone from storage; one that finds an   *)
(* entry of at most 24 hours returns the stored data, and the entry is    *)
(* in storage as it was when the call returns.                            *)
C16_CacheExpiry ==
    [][\A r \in lastReads' :
        r.entry # None =>
            IF r.now - r.entry[1].timestamp > 24
            THEN r.value = None /\ r.left = None
            ELSE r.value = Some(r.entry[1].data) /\ r.left = r.entry]_vars

(* An entry exactly 24 hours old was read and returned *)
C16_Witness ==
    \E r \in lastReads :
        /\ r.entry # None
        /\ r.now - r.entry[1].timestamp = 24
        /\ r.value # None
        /\ r.left = r.entry

(* An entry 25 hours old was read and found expired *)
C16_WitnessExpired ==
    \E r \in lastReads :
        /\ r.entry # None
        /\ r.now - r.entry[1].timestamp = 25
        /\ r.value = None
        /\ r.left = None

NoTempIds ==
    \A t \in Tables : \A i \in 1..Len(CollNext(t)) :
        ~startsWithTemp(CollNext(t)[i].id)

(* C17: an offline addTransaction with an owner present makes             *)
(* pendingCount one more and the transactions one longer, by an entity    *)
(* with a new temporary id; and once connectivity has returned, the end   *)
(* of a drain whose operations and whose refetch all succeeded leaves     *)
(* pendingCount 0 and no temporary id in any collection.                  *)
C17_OfflineAddThenDrain ==
    [][/\ (/\ lastMut' # None
           /\ lastMut'[1].kind = "insert"
           /\ lastMut'[1].table = "transactions"
           /\ lastMut'[1].owner # NoUser
           /\ ~lastMut'[1].online)
          => /\ Len(queue') = Len(queue) + 1
             /\ Len(transactions') = Len(transactions) + 1
             /\ \E i \in 1..Len(transactions') :
                   /\ startsWithTemp(transactions'[i].id)
                   /\ transactions'[i].id \notin Ids(transactions)
       /\ DrainSucceeded(lastEnd')
          => Len(queue') = 0 /\ NoTempIds]_vars

(* The drain of one offline addTransaction has ended with its refetch:    *)
(* the transaction is in the collection under a server-issued id          *)
C17_Witness ==
    /\ DrainSucceeded(lastEnd)
    /\ nMut = 1
    /\ Len(lastEnd[1].snapshot) = 1
    /\ lastEnd[1].snapshot[1].action = "insert"
    /\ lastEnd[1].snapshot[1].table = "transactions"
    /\ Len(queue) = 0
    /\ SrvId(2) \in Ids(transactions)

(* C18: in every reachable state the persisted queue, as a reload would   *)
(* restore it, is the in-memory queue, also after an enqueue whose        *)
(* storage write failed because storage is full.                          *)
C18_PersistedEqualsMemory == loadQueue(St) = queue

WellFormedOp(op) ==
    CASE op.action = "insert" -> op.tempId # None /\ op.payload # None
      [] op.action = "update" -> op.entityId # None /\ op.payload # None
      [] op.action = "delete" -> op.entityId # None /\ op.payload = None

(* C19: every operation of the queue, in memory and persisted, carries a  *)
(* tempId and a payload if it is an insert, an entityId and a payload if  *)
(* it is an update, an entityId and no payload if it is a delete.         *)
C19_QueuedOpFields ==
    /\ \A i \in 1..Len(queue) : WellFormedOp(queue[i])
    /\ \A i \in 1..Len(lsQueue) : WellFormedOp(lsQueue[i])

(* The queue holds a delete and, before or after it, an insert or update *)
C19_Witness ==
    \E i, j \in 1..Len(queue) :
        /\ queue[i].action = "delete"
        /\ queue[j].action \in {"insert", "update"}

(* The queue holds an update followed by an insert *)
C19_WitnessUpdate ==
    /\ Len(queue) = 2
    /\ queue[1].action = "update"
    /\ queue[2].action = "insert"

UniqueIds(list) == \A i, j \in 1..Len(list) : list[i].id = list[j].id => i = j

(* C20: in every reachable state each of the three collections holds at   *)
(* most one entity per id, also when the return of an online insert, which *)
(* prepends the returned row, comes after a fetch that already brought     *)
(* that row.                                                               *)
C20_UniqueIds ==
    /\ UniqueIds(transactions)
    /\ UniqueIds(reminders)
    /\ UniqueIds(investments)

(* The content a getOfflineCache() call would return for table t now *)
Cached(t) == getOfflineCache(St, t)

(* C21: when a select of the fetch at load time resolves, its collection  *)
(* holds the rows of the service (the select succeeded) or, the select     *)
(* having failed by an exception or by an error result, the data of the    *)
(* cache; with nothing in the cache the collection is left as it was; and  *)
(* the end of the fetch lowers the loading flag.                           *)
C21_FetchFailureLoadsCache ==
    [][event' = "fetched" =>
        /\ \A i \in 1..Len(fetches) :
             (Len(fetches') < Len(fetches) \/ fetches'[i].pc # fetches[i].pc)
             => LET t == FetchOrder[fetches[i].pc]
                IN  \/ CollNext(t) = MapSeq(Visible(remote[t], user),
                                            LAMBDA r : FromRow(t, r))
                    \/ Cached(t) # None /\ CollNext(t) = Cached(t)[1]
                    \/ Cached(t) = None /\ CollNext(t) = Coll(t)
        /\ Len(fetches') = 0 => ~loading']_vars

(* The part of C21 the code keeps: a select that raises loads every       *)
(* collection whose cache entry is valid from the cache and leaves the    *)
(* others as they were.                                                    *)
FetchThrowLoadsCache ==
    [][event' = "fetched" /\ lastReads' # {} =>
        \A t \in Tables :
            IF Cached(t) # None THEN CollNext(t) = Cached(t)[1]
            ELSE CollNext(t) = Coll(t)]_vars

(* C22: the step in which the remote call of an online update or delete   *)
(* fails leaves the three collections, with the optimistic change, as     *)
(* they are, and leaves the queue, in memory and persisted, unchanged.    *)
C22_NoRollbackNoRetry ==
    [][(/\ event' = "failed"
        /\ \E m \in inflight \ inflight' : m.kind \in {"update", "delete"})
       => UNCHANGED <<transactions, reminders, investments, queue, lsQueue>>]_vars

(* An online update has failed: the collection shows the new value, the   *)
(* service the old one                                                     *)
C22_Witness ==
    /\ event = "failed"
    /\ inflight = {}
    /\ Len(queue) = 0
    /\ \E i \in 1..Len(transactions), j \in 1..Len(remote["transactions"]) :
         /\ transactions[i].id = remote["transactions"][j].id
         /\ transactions[i].val # remote["transactions"][j].val

(* An online delete has failed: the entity is gone from the collection    *)
(* and its row is still at the service                                     *)
C22_WitnessDelete ==
    /\ event = "failed"
    /\ inflight = {}
    /\ Len(queue) = 0
    /\ nMut = 1
    /\ Len(transactions) = 0
    /\ Len(Visible(remote["transactions"], user)) = 1

(* C23: a setOfflineCache() call whose write fails leaves storage without *)
(* any cache entry that was older than 24 hours, whatever their number    *)
(* and order in storage, with every entry of at most 24 hours as it was,  *)
(* with the keys outside the cache's namespace in place, and without the  *)
(* entry it failed to write.                                              *)
C23_PurgeRemovesAllExpired ==
    [][\A p \in lastPurge' :
        /\ \A k \in Tables :
             IF p.found[k] = None THEN p.left[k] = None
             ELSE IF p.now - p.found[k][1].timestamp > 24
                  THEN p.left[k] = None
                  ELSE p.left[k] = p.found[k]
        /\ \A i \in 1..Len(p.keys) :
             p.keys[i] \notin Tables
             => \E j \in 1..Len(p.keysLeft) : p.keysLeft[j] = p.keys[i]]_vars

(* The part of C23 the code keeps: the purge removes no entry of at most  *)
(* 24 hours and no key outside the namespace, removes at least the first  *)
(* expired entry, and the failed write is not retried.                    *)
PurgeKeepsFresh ==
    [][\A p \in lastPurge' :
        /\ \A k \in Tables :
             IF p.found[k] = None THEN p.left[k] = None
             ELSE p.now - p.found[k][1].timestamp <= 24 => p.left[k] = p.found[k]
        /\ (\E k \in Tables : p.found[k] # None
                              /\ p.now - p.found[k][1].timestamp > 24)
           => p.left # p.found
        /\ \A i \in 1..Len(p.keys) :
             p.keys[i] \notin Tables
             => \E j \in 1..Len(p.keysLeft) : p.keysLeft[j] = p.keys[i]]_vars

(* C24: with an owner present, whenever the store is loading it           *)
(* eventually is not: after the fetch of the load effect, whatever its    *)
(* selects return, after the load from the cache offline, and after the   *)
(* refetch of a drain.                                                     *)
C24_LeavesLoading == (user # NoUser /\ loading) ~> ~loading

(* The refetch of a drain has ended with the owner present: not loading *)
C24_Witness ==
    /\ user # NoUser
    /\ ~loading
    /\ event = "syncfetched"
    /\ lastEnd # None
    /\ lastEnd[1].successCount > 0

(* The fetch of the load effect has ended on a failure: not loading *)
C24_WitnessFailedFetch ==
    /\ user # NoUser
    /\ ~loading
    /\ event = "fetched"
    /\ Len(fetches) = 0
    /\ Len(transactions) = 0

(* C25: when the loop of a drain pass ends, every operation that is in    *)
(* the queue and not in the pass's snapshot (it was enqueued while the    *)
(* pass was running) is still in the queue.                                *)
C25_LateOpsSurvive ==
    [][lastDrain' # None =>
        \A i \in 1..Len(queue) :
            (\A k \in 1..Len(lastDrain'[1].snapshot) :
                lastDrain'[1].snapshot[k].id # queue[i].id)
            => \E j \in 1..Len(queue') : queue'[j] = queue[i]]_vars

(* The part of C25 the code keeps: a pass that ends with no success       *)
(* leaves the operations enqueued while it ran in the queue.              *)
LateOpsSurviveFailedPass ==
    [][lastDrain' # None /\ lastDrain'[1].successCount = 0 =>
        \A i \in 1..Len(queue) :
            \E j \in 1..Len(queue') : queue'[j] = queue[i]]_vars

(* C26: an offline delete of an entity that was inserted offline and not  *)
(* yet drained cancels the insert.  A drain calls the remote service for  *)
(* every operation of the queue it snapshots, so the entity is not        *)
(* created only if, once the delete was called, the queue holds no insert *)
(* operation that carries the entity's temporary id.                      *)
C26_DeleteCancelsInsert ==
    [][/\ lastMut' # None
       /\ lastMut'[1].kind = "delete"
       /\ lastMut'[1].owner # NoUser
       /\ ~lastMut'[1].online
       /\ startsWithTemp(lastMut'[1].id[1])
       => \A j \in 1..Len(queue') :
            ~(/\ queue'[j].action = "insert"
              /\ queue'[j].table = lastMut'[1].table
              /\ queue'[j].tempId = lastMut'[1].id)]_vars

(* The operation of a snapshot that a remote call of a pass was made for *)
OpOfCall(p, c) ==
    CHOOSE o \in {p.snapshot[i] : i \in 1..Len(p.snapshot)} : o.id = c.op

(* C27: every remote call of a drain is made under the owner who was      *)
(* signed in when its operation was enqueued.                             *)
C27_DispatchUnderEnqueuer ==
    \A d \in 1..Len(drains) :
        \A k \in 1..Len(drains[d].calls) :
            OpOfCall(drains[d], drains[d].calls[k]).by = drains[d].owner

(* The part of C27 the code keeps: while the owner has not changed since  *)
(* the queue's operations were enqueued, a drain that starts is the       *)
(* enqueuer's.                                                             *)
DrainOfCurrentOwner ==
    [][Len(drains') > Len(drains) => drains'[Len(drains')].owner = user']_vars

(* Ids of the entities of a collection *)
IdsOf(list) == {list[i].id : i \in 1..Len(list)}

(* A step keeps the entity of every insert operation that stays queued,   *)
(* unless the step is the user's delete of that entity (steps whose event *)
(* is in except are not looked at).                                       *)
KeepsQueuedInserts(except) ==
    \A j \in 1..Len(queue) :
        (/\ event' \notin except
         /\ queue[j].action = "insert"
         /\ queue[j].tempId # None
         /\ queue[j].tempId[1] \in IdsOf(Coll(queue[j].table))
         /\ \E k \in 1..Len(queue') : queue'[k].id = queue[j].id
         /\ ~(/\ lastMut' # None
              /\ lastMut'[1].kind = "delete"
              /\ lastMut'[1].table = queue[j].table
              /\ lastMut'[1].id = queue[j].tempId))
        => queue[j].tempId[1] \in IdsOf(CollNext(queue[j].table))

(* C28: while an insert operation with temporary id T is queued and the   *)
(* user has not deleted T, the entity T stays in its collection: no step  *)
(* other than the user's delete of T takes it out, the load fetch started *)
(* by the return of connectivity included.                                *)
C28_QueuedInsertStaysVisible == [][KeepsQueuedInserts({})]_vars

(* The part of C28 the code keeps: steps of the user and of the drain's   *)
(* operation loop leave the entity in place.                              *)
QueuedInsertKeptOutsideFetch ==
    [][KeepsQueuedInserts({"fetched", "syncfetched"})]_vars

(* C29: no queued operation is applied to the remote service with success *)
(* more than once: the operation whose call a drain sees succeed has not  *)
(* been applied by a drain before.                                        *)
C29_AppliedOnce ==
    [][\A d \in 1..Len(drains) :
         (/\ event' = "synced"
          /\ Len(drains') >= d
          /\ drains[d].pc = "ops"
          /\ drains[d].calls # <<>>
          /\ drains[d].calls[Len(drains[d].calls)].res = "pending"
          /\ drains'[d].calls[Len(drains[d].calls)].res = "ok")
         => drains[d].calls[Len(drains[d].calls)].op \notin appliedIds]_vars

(* An expense transaction of an investment exists or is on its way: in    *)
(* the collection, queued, in flight for a markInvestmentAsDone call, or  *)
(* stored by the service.                                                 *)
InvestmentExpenseExists ==
    \/ \E i \in 1..Len(transactions) : transactions[i].category = "investment"
    \/ \E j \in 1..Len(queue) :
          /\ queue[j].action = "insert"
          /\ queue[j].table = "transactions"
          /\ queue[j].payload[1].category = "investment"
    \/ \E m \in inflight : m.kind = "insert" /\ m.mark # None
    \/ \E i \in 1..Len(remote["transactions"]) :
          remote["transactions"][i].category = "investment"

(* The step is a markInvestmentAsDone call that creates a transaction *)
MarkCreates ==
    /\ event' = "mutate"
    /\ lastMut' # None
    /\ lastMut'[1].kind = "mark"
    /\ \/ \E m \in inflight' \ inflight : m.kind = "insert" /\ m.mark # None
       \/ Len(queue') > Len(queue)

(* The step is a markInvestmentAsDone call on an investment that the      *)
(* collection shows as invested                                           *)
MarkOfInvested ==
    /\ event' = "mutate"
    /\ lastMut' # None
    /\ lastMut'[1].kind = "mark"
    /\ \E i \in 1..Len(investments) :
          /\ investments[i].id = lastMut'[1].id[1]
          /\ investments[i].jaInvestido

(* A markInvestmentAsDone call on an invested investment creates nothing  *)
(* and changes nothing.                                                   *)
MarkOfInvestedIsNoOp ==
    [][MarkOfInvested =>
        UNCHANGED <<transactions, reminders, investments, queue, lsQueue,
                    inflight, remote>>]_vars

(* C30: whatever the number of markInvestmentAsDone calls on an           *)
(* investment, a second one before the remote calls of the first resolve  *)
(* included, at most one expense transaction is created for it, and a     *)
(* call on an invested investment creates nothing and changes nothing.    *)
C30_MarkCreatesAtMostOne ==
    [][/\ MarkCreates => ~InvestmentExpenseExists
       /\ MarkOfInvested =>
            UNCHANGED <<transactions, reminders, investments, queue, lsQueue,
                        inflight, remote>>]_vars

====
